---- MODULE Spec2Model ----
(***************************************************************************)
(* Model of the OverflowWrapper library: the overflow predicates of        *)
(* src/src/overflow_checks.hpp (namespace overflow::checks) and the        *)
(* IntWrapper<T> value type of src/include/intwrapper.hpp.                 *)
(*                                                                         *)
(* The templates are instantiated for four integral types: a signed and an *)
(* unsigned type narrower than int ("schar", "uchar") and int and unsigned *)
(* int ("int", "uint").  The widths are scaled down (CharBits, IntBits) so *)
(* that every pair of operands is enumerated; the C++ rules that decide    *)
(* the predicates' behaviour are modelled as the language defines them:    *)
(* integer promotion, the usual arithmetic conversions, modular conversion *)
(* to the destination type, wrap-around of unsigned arithmetic, truncating *)
(* division, and undefined behaviour of signed overflow (flag ub).         *)
(***************************************************************************)
EXTENDS Integers, FiniteSets, Sequences, TLC

\* Width in bits of the types narrower than int.
CharBits == 3
\* Width in bits of int and unsigned int.
IntBits == 5

Types == {"schar", "uchar", "int", "uint"}

RECURSIVE Pow2(_)
Pow2(n) == IF n = 0 THEN 1 ELSE 2 * Pow2(n - 1)

Abs(x) == IF x < 0 THEN -x ELSE x

\* std::is_signed_v<t>
Signed(t) == t \in {"schar", "int"}

\* Width of t.
Bits(t) == IF t \in {"schar", "uchar"} THEN CharBits ELSE IntBits

\* std::numeric_limits<t>::min()
numeric_limits_min(t) == IF Signed(t) THEN -Pow2(Bits(t) - 1) ELSE 0

\* std::numeric_limits<t>::max()
numeric_limits_max(t) ==
    IF Signed(t) THEN Pow2(Bits(t) - 1) - 1 ELSE Pow2(Bits(t)) - 1

\* The values representable in t.
Range(t) == numeric_limits_min(t) .. numeric_limits_max(t)

InRange(t, x) == numeric_limits_min(t) <= x /\ x <= numeric_limits_max(t)

\* Conversion of the mathematical integer x to type t (modulo 2^Bits(t)).
Conv(t, x) ==
    LET m == Pow2(Bits(t))
        r == x % m
    IN  IF Signed(t) /\ r > numeric_limits_max(t) THEN r - m ELSE r

\* Integer promotion: a type narrower than int is promoted to int.
Promote(t) == IF t \in {"schar", "uchar"} THEN "int" ELSE t

\* Usual arithmetic conversions: the common type of a binary operator.
Common(t1, t2) ==
    IF Promote(t1) = Promote(t2) THEN Promote(t1) ELSE "uint"

\* Division truncating toward zero (C++ operator/ on integers), y # 0.
TruncDiv(x, y) ==
    LET q == Abs(x) \div Abs(y)
    IN  IF (x < 0) # (y < 0) THEN -q ELSE q

\* A typed value of an expression; ub records that evaluating it executed
\* undefined behaviour (signed overflow, division by zero).
Val(t, x) == [t |-> t, v |-> x, ub |-> FALSE]

\* An integer literal (type int).
Lit(x) == Val("int", x)

\* The result of a built-in binary operator whose exact result in the
\* common type c is e.
Arith(c, e, ubBefore) ==
    [t |-> c, v |-> Conv(c, e),
     ub |-> ubBefore \/ (Signed(c) /\ ~InRange(c, e))]

\* Built-in a + b
CAdd(a, b) ==
    LET c == Common(a.t, b.t)
    IN  Arith(c, Conv(c, a.v) + Conv(c, b.v), a.ub \/ b.ub)

\* Built-in a - b
CSub(a, b) ==
    LET c == Common(a.t, b.t)
    IN  Arith(c, Conv(c, a.v) - Conv(c, b.v), a.ub \/ b.ub)

\* Built-in a * b
CMul(a, b) ==
    LET c == Common(a.t, b.t)
    IN  Arith(c, Conv(c, a.v) * Conv(c, b.v), a.ub \/ b.ub)

\* Built-in a / b; division by zero is undefined.
CDiv(a, b) ==
    LET c == Common(a.t, b.t)
        y == Conv(c, b.v)
    IN  IF y = 0
        THEN [t |-> c, v |-> 0, ub |-> TRUE]
        ELSE Arith(c, TruncDiv(Conv(c, a.v), y), a.ub \/ b.ub)

\* Built-in unary -a
CNeg(a) ==
    LET p == Promote(a.t)
    IN  Arith(p, -Conv(p, a.v), a.ub)

\* Built-in a < b, a > b, a == b, a >= b: compared in the common type.
CLess(a, b) ==
    LET c == Common(a.t, b.t) IN Conv(c, a.v) < Conv(c, b.v)

CGreater(a, b) == CLess(b, a)

CEq(a, b) ==
    LET c == Common(a.t, b.t) IN Conv(c, a.v) = Conv(c, b.v)

CGeq(a, b) == ~CLess(a, b)

\* A predicate's result: the verdict v, and whether computing it executed
\* undefined behaviour (v is then not determined by the language).
Verdict(v, u) == [v |-> v, ub |-> u]


(***************************************************************************)
(* overflow::checks, src/src/overflow_checks.hpp                           *)
(***************************************************************************)

\* checks::Sub with the lower bound compared by <= instead of <.
SubOffByOne(LhsT, lhs, RhsT, rhs) ==
    LET l  == Val(LhsT, lhs)
        r  == Val(RhsT, rhs)
        hi == CAdd(Val(LhsT, numeric_limits_max(LhsT)), r)
        lo == CAdd(Val(LhsT, numeric_limits_min(LhsT)), r)
    IN  IF CLess(r, Lit(0)) /\ hi.ub THEN Verdict(FALSE, TRUE)
        ELSE IF CLess(r, Lit(0)) /\ CGreater(l, hi) THEN Verdict(TRUE, FALSE)
        ELSE IF CGreater(r, Lit(0)) THEN Verdict(~CGreater(l, lo), lo.ub)
        ELSE Verdict(FALSE, FALSE)

\* checks::Sub(lhs, rhs):
\*   rhs < 0 && lhs > max(LhsT) + rhs || rhs > 0 && lhs < min(LhsT) + rhs
Sub(LhsT, lhs, RhsT, rhs) ==
    LET l  == Val(LhsT, lhs)
        r  == Val(RhsT, rhs)
        hi == CAdd(Val(LhsT, numeric_limits_max(LhsT)), r)
        lo == CAdd(Val(LhsT, numeric_limits_min(LhsT)), r)
    IN  IF CLess(r, Lit(0)) /\ hi.ub THEN Verdict(FALSE, TRUE)
        ELSE IF CLess(r, Lit(0)) /\ CGreater(l, hi) THEN Verdict(TRUE, FALSE)
        ELSE IF CGreater(r, Lit(0)) THEN Verdict(CLess(l, lo), lo.ub)
        ELSE Verdict(FALSE, FALSE)

\* checks::Sum(lhs, rhs)
Sum(LhsT, lhs, RhsT, rhs) ==
    LET l  == Val(LhsT, lhs)
        r  == Val(RhsT, rhs)
        mx == Val(LhsT, numeric_limits_max(LhsT))
    IN  IF CLess(r, Lit(0))
        THEN IF CEq(r, Val(RhsT, numeric_limits_min(RhsT)))
             THEN Verdict(TRUE, FALSE)
             ELSE LET n == CNeg(r)
                      s == Sub(LhsT, lhs, n.t, n.v)
                  IN  Verdict(s.v, s.ub \/ n.ub)
        ELSE IF CGeq(l, Lit(0))
        THEN LET d == CSub(mx, l) IN Verdict(CLess(d, r), d.ub)
        ELSE LET d == CSub(mx, r) IN Verdict(CLess(d, l), d.ub)

\* checks::Mul(lhs, rhs); the recursive call deduces its template arguments
\* from the types of the expressions -lhs and -rhs.
RECURSIVE Mul(_, _, _, _)
Mul(LhsT, lhs, RhsT, rhs) ==
    LET l  == Val(LhsT, lhs)
        r  == Val(RhsT, rhs)
        mn == Val(LhsT, numeric_limits_min(LhsT))
        mx == Val(LhsT, numeric_limits_max(LhsT))
    IN  IF CEq(l, Lit(0)) \/ CEq(r, Lit(0)) THEN Verdict(FALSE, FALSE)
        ELSE IF CLess(l, Lit(0))
        THEN IF CLess(r, Lit(0))
             THEN IF CEq(l, mn) \/ CEq(r, mn)
                  THEN Verdict(TRUE, FALSE)
                  ELSE LET nl == CNeg(l)
                           nr == CNeg(r)
                           m  == Mul(nl.t, nl.v, nr.t, nr.v)
                       IN  Verdict(m.v, m.ub \/ nl.ub \/ nr.ub)
             ELSE LET q == CDiv(mn, l) IN Verdict(CLess(q, r), q.ub)
        ELSE IF CLess(r, Lit(0))
        THEN LET q == CDiv(mn, r) IN Verdict(CLess(q, l), q.ub)
        ELSE LET q == CDiv(mx, l) IN Verdict(CLess(q, r), q.ub)

\* checks::Div with the check of min(LhsT) / -1 implemented.
DivImplemented(LhsT, lhs, RhsT, rhs) ==
    Verdict(Signed(LhsT) /\ lhs = numeric_limits_min(LhsT) /\ rhs = -1, FALSE)

\* checks::Div(lhs, rhs): "TODO: Implement", returns false.
Div(LhsT, lhs, RhsT, rhs) == Verdict(FALSE, FALSE)

\* checks::Assign<LhsT, RhsT>(rhs): rhs > max(LhsT) || rhs < min(LhsT)
Assign(LhsT, RhsT, rhs) ==
    LET r == Val(RhsT, rhs)
    IN  Verdict(CGreater(r, Val(LhsT, numeric_limits_max(LhsT)))
                \/ CLess(r, Val(LhsT, numeric_limits_min(LhsT))), FALSE)


(***************************************************************************)
(* overflow::IntWrapper<T>, src/include/intwrapper.hpp                     *)
(*                                                                         *)
(* An operation on a wrapper holding value yields a set of results         *)
(* [outcome, value, ret, ub]: outcome is "ok" (returned), "overflow_error" *)
(* (std::overflow_error thrown) or "trap" (the undefined operation stopped *)
(* the program); value is the stored value afterwards, ret the returned    *)
(* value.  The set has more than one element only when the operation       *)
(* executes undefined behaviour: the verdict of a predicate that did so is *)
(* either boolean, a signed overflow stores the wrapped result or traps, a *)
(* division by zero stores 0 or traps.                                     *)
(***************************************************************************)

\* The checked operators storing the result before the check throws.
MutateThenCheck(T_, value_, c, s) ==
    LET verdicts == IF c.ub THEN BOOLEAN ELSE {c.v}
        thrown == [outcome |-> "overflow_error", value |-> Conv(T_, s.v),
                   ret |-> 0, ub |-> c.ub]
        stored == [outcome |-> "ok", value |-> Conv(T_, s.v),
                   ret |-> Conv(T_, s.v), ub |-> c.ub \/ s.ub]
    IN  (IF TRUE \in verdicts THEN {thrown} ELSE {})
        \cup (IF FALSE \in verdicts THEN {stored} ELSE {})

\* The shape shared by the constructor and the checked operators:
\*   if (checks::X(...)) throw std::overflow_error(...);
\*   value = <s>;  return *this;
\* c is the predicate's result and s the typed result of the raw operation.
CheckThenMutate(T_, value_, c, s) ==
    LET verdicts == IF c.ub THEN BOOLEAN ELSE {c.v}
        thrown == [outcome |-> "overflow_error", value |-> value_,
                   ret |-> 0, ub |-> c.ub]
        stored == [outcome |-> "ok", value |-> Conv(T_, s.v),
                   ret |-> Conv(T_, s.v), ub |-> c.ub \/ s.ub]
        trap   == [outcome |-> "trap", value |-> value_,
                   ret |-> 0, ub |-> TRUE]
    IN  (IF TRUE \in verdicts THEN {thrown} ELSE {})
        \cup (IF FALSE \in verdicts THEN {stored} ELSE {})
        \cup (IF c.ub \/ (FALSE \in verdicts /\ s.ub) THEN {trap} ELSE {})

\* IntWrapper(const ArgT &val); value{} is 0 until the assignment.
Constructor(T_, ArgT, val) ==
    CheckThenMutate(T_, 0, Assign(T_, ArgT, val), Val(ArgT, val))

\* operator=(const RhsT &rhs)
OpAssign(T_, value_, RhsT, rhs_) ==
    CheckThenMutate(T_, value_, Assign(T_, RhsT, rhs_), Val(RhsT, rhs_))

\* operator+=(const RhsT &rhs)
OpAddAssign(T_, value_, RhsT, rhs_) ==
    CheckThenMutate(T_, value_, Sum(T_, value_, RhsT, rhs_),
                    CAdd(Val(T_, value_), Val(RhsT, rhs_)))

\* operator-=(const RhsT &rhs)
OpSubAssign(T_, value_, RhsT, rhs_) ==
    CheckThenMutate(T_, value_, Sub(T_, value_, RhsT, rhs_),
                    CSub(Val(T_, value_), Val(RhsT, rhs_)))

\* operator*=(const RhsT &rhs)
OpMulAssign(T_, value_, RhsT, rhs_) ==
    CheckThenMutate(T_, value_, Mul(T_, value_, RhsT, rhs_),
                    CMul(Val(T_, value_), Val(RhsT, rhs_)))

\* operator/=(const RhsT &rhs)
OpDivAssign(T_, value_, RhsT, rhs_) ==
    CheckThenMutate(T_, value_, Div(T_, value_, RhsT, rhs_),
                    CDiv(Val(T_, value_), Val(RhsT, rhs_)))

\* const T &Get() const
Get(value_) == value_

\* operator T() const
OperatorT(value_) == value_

\* operator=(const IntWrapper<RhsWrappedT> &rhs); for RhsWrappedT = T the
\* implicitly declared copy assignment is selected, which copies value.
OpAssignWrapped(T_, value_, RhsWrappedT, rhsValue) ==
    IF RhsWrappedT = T_
    THEN {[outcome |-> "ok", value |-> rhsValue, ret |-> rhsValue,
           ub |-> FALSE]}
    ELSE OpAssign(T_, value_, RhsWrappedT, Get(rhsValue))

\* operator+=(IntWrapper<LhsWrappedT> &lhs, const IntWrapper<RhsWrappedT> &rhs)
OpAddAssignWrapped(T_, value_, RhsWrappedT, rhsValue) ==
    OpAddAssign(T_, value_, RhsWrappedT, Get(rhsValue))

\* operator-=(IntWrapper<LhsWrappedT> &lhs, const IntWrapper<RhsWrappedT> &rhs)
OpSubAssignWrapped(T_, value_, RhsWrappedT, rhsValue) ==
    OpSubAssign(T_, value_, RhsWrappedT, Get(rhsValue))

\* operator*=(IntWrapper<LhsWrappedT> &lhs, const IntWrapper<RhsWrappedT> &rhs)
OpMulAssignWrapped(T_, value_, RhsWrappedT, rhsValue) ==
    OpMulAssign(T_, value_, RhsWrappedT, Get(rhsValue))

\* operator/=(IntWrapper<LhsWrappedT> &lhs, const IntWrapper<RhsWrappedT> &rhs)
OpDivAssignWrapped(T_, value_, RhsWrappedT, rhsValue) ==
    OpDivAssign(T_, value_, RhsWrappedT, Get(rhsValue))

\* operator++(IntWrapper<T> &operand): return operand += 1;
PrefixInc(T_, value_) == OpAddAssign(T_, value_, "int", 1)

\* operator--(IntWrapper<T> &operand): return operand -= 1;
PrefixDec(T_, value_) == OpSubAssign(T_, value_, "int", 1)

\* Postfix ++ returning the incremented operand instead of the copy.
PostfixIncReturnsNew(T_, value_) == PrefixInc(T_, value_)

\* operator++(IntWrapper<T> &operand, int):
\*   IntWrapper<T> retval{operand}; ++operand; return retval;
PostfixInc(T_, value_) ==
    LET retval == value_
    IN  {IF o.outcome = "ok" THEN [o EXCEPT !.ret = retval] ELSE o :
            o \in PrefixInc(T_, value_)}

\* operator--(IntWrapper<T> &operand, int):
\*   IntWrapper<T> retval{operand}; --operand; return retval;
PostfixDec(T_, value_) ==
    LET retval == value_
    IN  {IF o.outcome = "ok" THEN [o EXCEPT !.ret = retval] ELSE o :
            o \in PrefixDec(T_, value_)}

\* w + r, w - r, w * r for a wrapper w and a raw r: the header declares no
\* operator+, operator- or operator* for IntWrapper, so the expression
\* converts w with operator T() and applies the built-in operator s.
BuiltinBinary(value_, s) ==
    {[outcome |-> "ok", value |-> value_, ret |-> s.v, ub |-> s.ub]}
    \cup (IF s.ub
          THEN {[outcome |-> "trap", value |-> value_, ret |-> 0,
                 ub |-> TRUE]}
          ELSE {})

FreeAdd(T_, value_, RhsT, rhs_) ==
    BuiltinBinary(value_, CAdd(Val(T_, OperatorT(value_)), Val(RhsT, rhs_)))

FreeSub(T_, value_, RhsT, rhs_) ==
    BuiltinBinary(value_, CSub(Val(T_, OperatorT(value_)), Val(RhsT, rhs_)))

FreeMul(T_, value_, RhsT, rhs_) ==
    BuiltinBinary(value_, CMul(Val(T_, OperatorT(value_)), Val(RhsT, rhs_)))


(***************************************************************************)
(* State: one wrapper object (its type T and member value) and the record  *)
(* of the call in progress: op ("none" between calls), the destination     *)
(* type LT and stored value lhs before the call, the operand's type RT and *)
(* value rhs, whether the operand was a wrapper (wrapped) and its value    *)
(* after the call (rhsAfter), and the call's outcome, returned value ret,  *)
(* predicate verdict and ub flag.                                          *)
(***************************************************************************)
VARIABLES T, value, op, LT, lhs, RT, rhs, wrapped, rhsAfter, outcome, ret,
          verdict, ub

vars == <<T, value, op, LT, lhs, RT, rhs, wrapped, rhsAfter, outcome, ret,
          verdict, ub>>

\* No call in progress.
NoCall ==
    /\ op = "none" /\ LT = T /\ lhs = 0 /\ RT = "int" /\ rhs = 0
    /\ wrapped = FALSE /\ rhsAfter = 0 /\ outcome = "ok" /\ ret = 0
    /\ verdict = FALSE /\ ub = FALSE

\* constexpr IntWrapper() = default;  T value{};
Init ==
    /\ T \in Types
    /\ value = 0
    /\ NoCall

\* The record of a call of a wrapper operation with result res.
Called(o, lt, l, rt, r, w, ra, res) ==
    /\ op' = o /\ LT' = lt /\ lhs' = l /\ RT' = rt /\ rhs' = r
    /\ wrapped' = w /\ rhsAfter' = ra
    /\ outcome' = res.outcome /\ ret' = res.ret /\ ub' = res.ub
    /\ verdict' = FALSE

\* The record of a call of a predicate with result c on (value, r).
Checked(o, rt, r, c) ==
    /\ op' = o /\ LT' = T /\ lhs' = value /\ RT' = rt /\ rhs' = r
    /\ wrapped' = FALSE /\ rhsAfter' = r /\ ret' = 0 /\ ub' = c.ub
    /\ \/ outcome' = "ok" /\ verdict' \in (IF c.ub THEN BOOLEAN ELSE {c.v})
       \/ c.ub /\ outcome' = "trap" /\ verdict' = FALSE
    /\ UNCHANGED <<T, value>>

\* IntWrapper<nt> w(val): on success the new object is the one tracked.
Construct ==
    /\ op = "none"
    /\ \E nt \in Types, at \in Types :
         \E val \in Range(at) :
           \E res \in Constructor(nt, at, val) :
             /\ IF res.outcome = "ok"
                THEN T' = nt /\ value' = res.value
                ELSE UNCHANGED <<T, value>>
             /\ Called("Construct", nt, 0, at, val, FALSE, val, res)

\* The effect of an operator applied to the tracked wrapper with the raw
\* operand r of type rt.
RawStep(o, rt, r, res) ==
    /\ value' = res.value
    /\ T' = T
    /\ Called(o, T, value, rt, r, FALSE, r, res)

\* The effect of an operator applied to the tracked wrapper with a wrapper
\* operand, which is another object or (alias) the tracked wrapper itself.
WrappedStep(o, rt, r, alias, res) ==
    /\ value' = res.value
    /\ T' = T
    /\ Called(o, T, value, rt, r, TRUE, IF alias THEN res.value ELSE r, res)

\* w = r
AssignRaw ==
    /\ op = "none"
    /\ \E rt \in Types :
         \E r \in Range(rt) :
           \E res \in OpAssign(T, value, rt, r) :
             RawStep("=", rt, r, res)

\* w = w2
AssignWrapped ==
    /\ op = "none"
    /\ \E rt \in Types, alias \in BOOLEAN :
         \E r \in Range(rt) :
           /\ alias => (rt = T /\ r = value)
           /\ \E res \in OpAssignWrapped(T, value, rt, r) :
                WrappedStep("=", rt, r, alias, res)

\* w += r
AddAssignRaw ==
    /\ op = "none"
    /\ \E rt \in Types :
         \E r \in Range(rt) :
           \E res \in OpAddAssign(T, value, rt, r) :
             RawStep("+=", rt, r, res)

\* w += w2
AddAssignWrapped ==
    /\ op = "none"
    /\ \E rt \in Types, alias \in BOOLEAN :
         \E r \in Range(rt) :
           /\ alias => (rt = T /\ r = value)
           /\ \E res \in OpAddAssignWrapped(T, value, rt, r) :
                WrappedStep("+=", rt, r, alias, res)

\* w -= r
SubAssignRaw ==
    /\ op = "none"
    /\ \E rt \in Types :
         \E r \in Range(rt) :
           \E res \in OpSubAssign(T, value, rt, r) :
             RawStep("-=", rt, r, res)

\* w -= w2
SubAssignWrapped ==
    /\ op = "none"
    /\ \E rt \in Types, alias \in BOOLEAN :
         \E r \in Range(rt) :
           /\ alias => (rt = T /\ r = value)
           /\ \E res \in OpSubAssignWrapped(T, value, rt, r) :
                WrappedStep("-=", rt, r, alias, res)

\* w *= r
MulAssignRaw ==
    /\ op = "none"
    /\ \E rt \in Types :
         \E r \in Range(rt) :
           \E res \in OpMulAssign(T, value, rt, r) :
             RawStep("*=", rt, r, res)

\* w *= w2
MulAssignWrapped ==
    /\ op = "none"
    /\ \E rt \in Types, alias \in BOOLEAN :
         \E r \in Range(rt) :
           /\ alias => (rt = T /\ r = value)
           /\ \E res \in OpMulAssignWrapped(T, value, rt, r) :
                WrappedStep("*=", rt, r, alias, res)

\* w /= r
DivAssignRaw ==
    /\ op = "none"
    /\ \E rt \in Types :
         \E r \in Range(rt) :
           \E res \in OpDivAssign(T, value, rt, r) :
             RawStep("/=", rt, r, res)

\* w /= w2
DivAssignWrapped ==
    /\ op = "none"
    /\ \E rt \in Types, alias \in BOOLEAN :
         \E r \in Range(rt) :
           /\ alias => (rt = T /\ r = value)
           /\ \E res \in OpDivAssignWrapped(T, value, rt, r) :
                WrappedStep("/=", rt, r, alias, res)

\* ++w
PreIncrement ==
    /\ op = "none"
    /\ \E res \in PrefixInc(T, value) :
         RawStep("++pre", "int", 1, res)

\* w++
PostIncrement ==
    /\ op = "none"
    /\ \E res \in PostfixInc(T, value) :
         RawStep("post++", "int", 1, res)

\* --w
PreDecrement ==
    /\ op = "none"
    /\ \E res \in PrefixDec(T, value) :
         RawStep("--pre", "int", 1, res)

\* w--
PostDecrement ==
    /\ op = "none"
    /\ \E res \in PostfixDec(T, value) :
         RawStep("post--", "int", 1, res)

\* w + r
FreeAddCall ==
    /\ op = "none"
    /\ \E rt \in Types :
         \E r \in Range(rt) :
           \E res \in FreeAdd(T, value, rt, r) :
             RawStep("+", rt, r, res)

\* w - r
FreeSubCall ==
    /\ op = "none"
    /\ \E rt \in Types :
         \E r \in Range(rt) :
           \E res \in FreeSub(T, value, rt, r) :
             RawStep("-", rt, r, res)

\* w * r
FreeMulCall ==
    /\ op = "none"
    /\ \E rt \in Types :
         \E r \in Range(rt) :
           \E res \in FreeMul(T, value, rt, r) :
             RawStep("*", rt, r, res)

\* Reading the wrapper: operator T() / Get() const.
Read ==
    /\ op = "none"
    /\ Called("Get", T, value, "int", 0, FALSE, 0,
              [outcome |-> "ok", ret |-> Get(value), ub |-> FALSE])
    /\ UNCHANGED <<T, value>>

\* Direct calls of the predicates with lhs = value.
CallSum ==
    /\ op = "none"
    /\ \E rt \in Types : \E r \in Range(rt) :
         Checked("Sum", rt, r, Sum(T, value, rt, r))

CallSub ==
    /\ op = "none"
    /\ \E rt \in Types : \E r \in Range(rt) :
         Checked("Sub", rt, r, Sub(T, value, rt, r))

CallMul ==
    /\ op = "none"
    /\ \E rt \in Types : \E r \in Range(rt) :
         Checked("Mul", rt, r, Mul(T, value, rt, r))

CallDiv ==
    /\ op = "none"
    /\ \E rt \in Types : \E r \in Range(rt) :
         Checked("Div", rt, r, Div(T, value, rt, r))

CallAssign ==
    /\ op = "none"
    /\ \E rt \in Types : \E r \in Range(rt) :
         Checked("Assign", rt, r, Assign(T, rt, r))

\* The caller takes the returned value or catches the exception; a trapped
\* program does not continue.
Return ==
    /\ op # "none"
    /\ outcome # "trap"
    /\ op' = "none" /\ LT' = T /\ lhs' = 0 /\ RT' = "int" /\ rhs' = 0
    /\ wrapped' = FALSE /\ rhsAfter' = 0 /\ outcome' = "ok" /\ ret' = 0
    /\ verdict' = FALSE /\ ub' = FALSE
    /\ UNCHANGED <<T, value>>

Next ==
    \/ Construct
    \/ AssignRaw
    \/ AssignWrapped
    \/ AddAssignRaw
    \/ AddAssignWrapped
    \/ SubAssignRaw
    \/ SubAssignWrapped
    \/ MulAssignRaw
    \/ MulAssignWrapped
    \/ DivAssignRaw
    \/ DivAssignWrapped
    \/ PreIncrement
    \/ PostIncrement
    \/ PreDecrement
    \/ PostDecrement
    \/ FreeAddCall
    \/ FreeSubCall
    \/ FreeMulCall
    \/ Read
    \/ CallSum
    \/ CallSub
    \/ CallMul
    \/ CallDiv
    \/ CallAssign
    \/ Return

Spec == Init /\ [][Next]_vars

TypeOK ==
    /\ T \in Types /\ value \in Range(T)
    /\ LT \in Types /\ RT \in Types /\ rhs \in Range(RT)
    /\ outcome \in {"ok", "overflow_error", "trap"}
    /\ verdict \in BOOLEAN /\ ub \in BOOLEAN /\ wrapped \in BOOLEAN


(***************************************************************************)
(* Properties                                                              *)
(***************************************************************************)

\* Both operands of the recorded call have the same type.
SameType == RT = LT

\* The call in progress is a checked operator of the wrapper.
Arithmetic == {"+=", "-=", "*="}
Increments == {"++pre", "post++"}
Decrements == {"--pre", "post--"}

\* The mathematically exact result of the recorded call.
Exact ==
    CASE op \in {"=", "Construct", "Assign"} -> rhs
      [] op \in {"+=", "+", "Sum"} \cup Increments -> lhs + rhs
      [] op \in {"-=", "-", "Sub"} \cup Decrements -> lhs - rhs
      [] op \in {"*=", "*", "Mul"} -> lhs * rhs
      [] OTHER -> 0

\* C1: for operands a, b of one type T, checks::Sum(a, b) returns true if
\* and only if the exact a + b lies outside [min(T), max(T)].
SumCorrect ==
    (op = "Sum" /\ SameType) =>
        (outcome = "ok" /\ (verdict <=> ~InRange(LT, lhs + rhs)))

\* C2: for operands a, b of one type T, checks::Mul(a, b) returns true if
\* and only if the exact a * b lies outside [min(T), max(T)].
MulCorrect ==
    (op = "Mul" /\ SameType) =>
        (outcome = "ok" /\ (verdict <=> ~InRange(LT, lhs * rhs)))

\* C3: for operands a, b of one type T, checks::Sub(a, b) returns true if
\* and only if the exact a - b lies outside [min(T), max(T)], that is iff
\* (b < 0 and a > max(T) + b) or (b > 0 and a < min(T) + b); b = 0 never
\* reports overflow.
SubCorrect ==
    (op = "Sub" /\ SameType) =>
        /\ outcome = "ok"
        /\ ~ub
        /\ verdict <=> ~InRange(LT, lhs - rhs)
        /\ verdict <=> \/ rhs < 0 /\ lhs > numeric_limits_max(LT) + rhs
                       \/ rhs > 0 /\ lhs < numeric_limits_min(LT) + rhs
        /\ rhs = 0 => ~verdict

\* Sub reports an overflow for a negative right operand of type int.
SubWitness ==
    /\ op = "Sub" /\ SameType /\ LT = "int"
    /\ rhs < 0 /\ verdict /\ ~InRange(LT, lhs - rhs)

\* C7: for operands of one signed type of width int or wider, evaluating
\* checks::Sum, checks::Sub and checks::Mul computes no intermediate value
\* outside the range of that type.
NoInternalOverflow ==
    (op \in {"Sum", "Sub", "Mul"} /\ SameType /\ Signed(LT)
        /\ Promote(LT) = LT) => ~ub


\* C4: constructing an IntWrapper<T> from v or assigning v to it fails with
\* the overflow error if and only if v lies outside [min(T), max(T)], and
\* for v inside the range it succeeds and the wrapper then holds v.
AssignRangeCheck ==
    (op \in {"Construct", "="}) =>
        /\ outcome = "overflow_error" <=> ~InRange(LT, rhs)
        /\ InRange(LT, rhs) => (outcome = "ok" /\ T = LT /\ value = rhs)

\* C5: whenever =, +=, -= or *= raises the overflow error, the stored value
\* after the call equals the value before it and the right-hand operand is
\* unchanged.
FailWithoutMutation ==
    [][(op' \in {"="} \cup Arithmetic /\ outcome' = "overflow_error") =>
          (value' = value /\ T' = T /\ rhsAfter' = rhs')]_vars

\* *= with a wrapper operand raised the overflow error on a nonzero value.
FailWithoutMutationWitness ==
    /\ op = "*=" /\ wrapped /\ outcome = "overflow_error"
    /\ lhs # 0 /\ value = lhs /\ ~InRange(LT, lhs * rhs)

\* C6: every =, +=, -=, *=, ++ or -- that does not raise leaves the stored
\* value equal to the exact mathematical result of the operation on the
\* previous value, inside [min(T), max(T)].
CorrectOrFail ==
    (op \in {"="} \cup Arithmetic \cup Increments \cup Decrements
        /\ outcome = "ok") =>
        (value = Exact /\ InRange(T, value))

\* C8: w + r, w - r and w * r raise the overflow error when the exact
\* result is outside [min(T), max(T)], otherwise return the exact result,
\* and leave w unchanged.
FreeOperatorsChecked ==
    (op \in {"+", "-", "*"}) =>
        /\ outcome = "overflow_error" <=> ~InRange(LT, Exact)
        /\ InRange(LT, Exact) => (outcome = "ok" /\ ret = Exact)
        /\ value = lhs

IncrementDecrement ==
    /\ op \in Increments =>
         IF lhs = numeric_limits_max(LT)
         THEN outcome = "overflow_error" /\ value = lhs
         ELSE /\ outcome = "ok" /\ value = lhs + 1
              /\ ret = IF op = "++pre" THEN lhs + 1 ELSE lhs
    /\ op \in Decrements =>
         IF lhs = numeric_limits_min(LT)
         THEN outcome = "overflow_error" /\ value = lhs
         ELSE /\ outcome = "ok" /\ value = lhs - 1
              /\ ret = IF op = "--pre" THEN lhs - 1 ELSE lhs

\* Postfix ++ returned the old value of a wrapper it incremented.
IncrementDecrementWitness ==
    /\ op = "post++" /\ outcome = "ok"
    /\ ret = lhs /\ value = lhs + 1 /\ lhs # 0


\* The results the scalar compound operator of the recorded call yields for
\* the raw operand rhs of type RT.
ScalarResults ==
    CASE op = "+=" -> OpAddAssign(LT, lhs, RT, rhs)
      [] op = "-=" -> OpSubAssign(LT, lhs, RT, rhs)
      [] op = "*=" -> OpMulAssign(LT, lhs, RT, rhs)
      [] OTHER -> {}

\* The recorded call's operand is the object the operator was applied to.
SameObject == RT = LT /\ rhs = lhs /\ rhsAfter = value

\* a op= b has the outcome of a op= b.Get().
SameAsScalar ==
    (wrapped /\ op \in Arithmetic) =>
        [outcome |-> outcome, value |-> value, ret |-> ret, ub |-> ub]
            \in ScalarResults

\* a op= b leaves a distinct b as it was.
OperandKept ==
    (wrapped /\ op \in Arithmetic) => (rhsAfter = rhs \/ SameObject)

\* C11: for wrappers a of type L and b of type R, a += b, a -= b and
\* a *= b have the outcome of a op= b.Get(), raise the overflow error
\* exactly when the result is outside the range of L, whatever R is, and
\* do not modify b.
CrossWrapperCompound ==
    (wrapped /\ op \in Arithmetic) =>
        /\ [outcome |-> outcome, value |-> value, ret |-> ret, ub |-> ub]
               \in ScalarResults
        /\ outcome = "overflow_error" <=> ~InRange(LT, Exact)
        /\ rhsAfter = rhs \/ SameObject

====
